---- MODULE Spec2Model ----
(***************************************************************************)
(* Model of text-mining.py: a page script that reads two dates and a       *)
(* keyword text, sends six searches to the backend (three per channel),    *)
(* and shows two histograms, two matched counts and two percentages.       *)
(*                                                                         *)
(* Representation:                                                         *)
(*   - Python str        : TLA+ string; a text that holds what the user    *)
(*                         typed is the sequence of its code points, so    *)
(*                         that every character can be told apart          *)
(*                         ("x,y" is <<120, 44, 121>>)                     *)
(*   - Python list       : sequence                                        *)
(*   - Python dict       : record, or (for the insertion-ordered           *)
(*                         histogram dict) a sequence of <<key, value>>    *)
(*   - datetime.date     : record [year, month, day]                       *)
(*   - a float that round(_, 2) returned : the integer number of           *)
(*                         hundredths (15.0 is 1500, 14.37 is 1437)        *)
(*   - a raised exception: error # "none" and pc = "crashed"               *)
(***************************************************************************)
EXTENDS Integers, Sequences, FiniteSets, TLC

VARIABLES
    pc,                   \* position of the script inside generate_content
    date_start,           \* value of the "range start" date widget
    date_end,             \* value of the "range end" date widget
    raw,                  \* value of the keyword text widget
    dates,                \* generate_content: dates
    user_input,           \* generate_content: user_input
    query_str,            \* generate_content: query_str
    issued,               \* the es.search calls made so far, in order
    res,                  \* generate_content: res
    matching_call_logs,   \* generate_content: matching_call_logs
    all_call_logs,        \* generate_content: all_call_logs
    res2,                 \* generate_content: res2
    matching_email_logs,  \* generate_content: matching_email_logs
    all_email_logs,       \* generate_content: all_email_logs
    shown,                \* what st.bar_chart / st.write have put on the page
    error,                \* the exception that ended the script, or "none"
    fn_args,              \* arguments of the function applied on its own
    fn_ret                \* its return value

vars == <<pc, date_start, date_end, raw, dates, user_input, query_str, issued,
          res, matching_call_logs, all_call_logs, res2, matching_email_logs,
          all_email_logs, shown, error, fn_args, fn_ret>>

(***************************************************************************)
(* Bounds                                                                  *)
(***************************************************************************)
MaxLen == 3        \* longest keyword text of a whole request
MaxKwLen == 5      \* longest keyword text when only the query string is built
MaxMonth == 2      \* the date widgets offer months 1..MaxMonth of 2024
MaxCount == 2      \* largest count the backend answers in a whole request
MaxPct == 300      \* largest count given to percentage_of_total_logs alone
MaxBuckets == 3    \* longest bucket list given to the histogram loop alone
MaxKey == 3        \* the bucket keys of that list are days 1..MaxKey

\* the characters of the keyword texts: x, y, comma, space
Alphabet == {120, 121, 44, 32}

\* the keyword texts of the query-string runs may also hold a tab and
\* U+1680 (OGHAM SPACE MARK)
KwAlphabet == Alphabet \cup {9, 5760}

\* the characters str.strip() removes, i.e. those with str.isspace():
\* U+0009..U+000D, U+001C..U+001F, U+0020, U+0085, U+00A0, U+1680,
\* U+2000..U+200A, U+2028, U+2029, U+202F, U+205F, U+3000
Whitespace ==
    (9..13) \cup (28..32) \cup {133, 160, 5760} \cup (8192..8202)
        \cup {8232, 8233, 8239, 8287, 12288}

\* the literals " and " and "'" as text
AndText == <<32, 97, 110, 100, 32>>
QuoteText == <<39>>

None == "None"

(***************************************************************************)
(* Strings                                                                 *)
(***************************************************************************)
RECURSIVE StringsOver(_, _)
StringsOver(alphabet, n) ==
    IF n = 0 THEN {<<>>}
    ELSE LET shorter == StringsOver(alphabet, n - 1)
         IN  shorter \cup {Append(s, c) : s \in {t \in shorter : Len(t) = n - 1}, c \in alphabet}

Strings(n) == StringsOver(Alphabet, n)

\* str.split(sep) for a one-character separator: never returns an empty list
RECURSIVE SplitFrom(_, _, _)
SplitFrom(s, sep, cur) ==
    IF Len(s) = 0 THEN <<cur>>
    ELSE IF Head(s) = sep THEN <<cur>> \o SplitFrom(Tail(s), sep, <<>>)
    ELSE SplitFrom(Tail(s), sep, Append(cur, Head(s)))

split(s, sep) == SplitFrom(s, sep, <<>>)

RECURSIVE lstrip(_)
lstrip(s) ==
    IF Len(s) > 0 /\ Head(s) \in Whitespace THEN lstrip(Tail(s)) ELSE s

RECURSIVE rstrip(_)
rstrip(s) ==
    IF Len(s) > 0 /\ s[Len(s)] \in Whitespace
    THEN rstrip(SubSeq(s, 1, Len(s) - 1))
    ELSE s

strip(s) == rstrip(lstrip(s))

\* result = [x.strip() for x in user_input.split(",")]
get_user_input(text) ==
    LET pieces == split(text, 44)
    IN  [i \in 1..Len(pieces) |-> strip(pieces[i])]

format_and_swapped(a, b) == b \o AndText \o a

\* "{} and {}".format(a, b)
format_and(a, b) == a \o AndText \o b

(***************************************************************************)
(* Dates                                                                   *)
(***************************************************************************)
\* the dates the widgets are made to return: the first day of each month
Dates == {[year |-> 2024, month |-> m, day |-> 1] : m \in 1..MaxMonth}

RECURSIVE ZeroPad(_, _)
ZeroPad(s, width) == IF Len(s) >= width THEN s ELSE ZeroPad("0" \o s, width)

\* date.isoformat(): YYYY-MM-DD
isoformat(d) ==
    ZeroPad(ToString(d.year), 4) \o "-" \o ZeroPad(ToString(d.month), 2)
        \o "-" \o ZeroPad(ToString(d.day), 2)

\* date comparison a > b
DateAfter(a, b) ==
    \/ a.year > b.year
    \/ a.year = b.year /\ a.month > b.month
    \/ a.year = b.year /\ a.month = b.month /\ a.day > b.day

pick_date_range(start, end) == <<isoformat(start), isoformat(end)>>

(***************************************************************************)
(* The three request bodies handed to es.search                            *)
(***************************************************************************)
\* body of obtain_matching_logs
HistogramBody(query, date_range, range_keyword, field_main) ==
    [_source |-> <<range_keyword, field_main>>,
     query |-> [bool |-> [must |-> <<
         [query_string |-> [query |-> query]],
         [range |-> (range_keyword :> [gte |-> date_range[1], lt |-> date_range[2]])]
     >>]],
     aggs |-> [daily_logs |->
         [date_histogram |-> [field |-> range_keyword, fixed_interval |-> "1d"]]]]

\* body of cardinality_matched_logs
MatchedBody(query, date_range, range_keyword, field_main) ==
    [query |-> [bool |-> [must |-> <<
         [query_string |-> [query |-> query]],
         [range |-> (range_keyword :> [gte |-> date_range[1], lt |-> date_range[2]])]
     >>]],
     aggs |-> [aggregations |->
         [cardinality |-> [field |-> field_main \o ".keyword"]]]]

AllBodyNoKeyword(query, date_range, range_keyword, field_main) ==
    [query |-> [bool |-> [must |-> <<
         [range |-> (range_keyword :> [gte |-> date_range[1], lt |-> date_range[2]])]
     >>]],
     aggs |-> [aggregations |-> [cardinality |-> [field |-> field_main]]]]

\* body of cardinality_all_logs (query is accepted and not used)
AllBody(query, date_range, range_keyword, field_main) ==
    [query |-> [bool |-> [must |-> <<
         [range |-> (range_keyword :> [gte |-> date_range[1], lt |-> date_range[2]])]
     >>]],
     aggs |-> [aggregations |->
         [cardinality |-> [field |-> field_main \o ".keyword"]]]]

\* one es.search(index=..., body=...) call
SearchCall(index_name, body) == [index |-> index_name, body |-> body]

(***************************************************************************)
(* The histogram loop of obtain_matching_logs                              *)
(***************************************************************************)
DictHas(d, k) == \E i \in 1..Len(d) : d[i][1] = k

\* d[k] = v on an insertion-ordered dict: a present key keeps its place
DictSet(d, k, v) ==
    IF DictHas(d, k)
    THEN [i \in 1..Len(d) |-> IF d[i][1] = k THEN <<k, v>> ELSE d[i]]
    ELSE Append(d, <<k, v>>)

RECURSIVE HistogramLoopPrepending(_, _)
HistogramLoopPrepending(buckets, histogram_data) ==
    IF buckets = <<>> THEN histogram_data
    ELSE HistogramLoopPrepending(Tail(buckets),
            IF DictHas(histogram_data, Head(buckets).key_as_string)
            THEN DictSet(histogram_data, Head(buckets).key_as_string,
                         Head(buckets).doc_count)
            ELSE <<<<Head(buckets).key_as_string, Head(buckets).doc_count>>>>
                     \o histogram_data)

\* for bucket in buckets: histogram_data[bucket["key_as_string"]] = bucket["doc_count"]
RECURSIVE HistogramLoop(_, _)
HistogramLoop(buckets, histogram_data) ==
    IF buckets = <<>> THEN histogram_data
    ELSE HistogramLoop(Tail(buckets),
            DictSet(histogram_data, Head(buckets).key_as_string, Head(buckets).doc_count))

histogram_of(buckets) == HistogramLoop(buckets, <<>>)

(***************************************************************************)
(* percentage_of_total_logs: round((partial / total) * 100, 2)             *)
(*                                                                         *)
(* partial / total and its product with 100 are IEEE-754 doubles, each     *)
(* correctly rounded to 53 bits (ties to even); round(_, 2) then rounds    *)
(* the exact value of that double to the nearest hundredth, ties to even.  *)
(* The double differs from 100*partial/total by far less than any non-zero *)
(* distance of 10000*partial/total to k + 1/2, so its error decides the    *)
(* result only when 10000*partial/total is exactly k + 1/2; then the sign  *)
(* of the error decides.  The sign is computed from the low bits of the    *)
(* 53-bit quotient, with numbers that stay small.  The result is given in  *)
(* hundredths.                                                             *)
(***************************************************************************)
RECURSIVE Pow2(_)
Pow2(n) == IF n = 0 THEN 1 ELSE 2 * Pow2(n - 1)

\* the E with 2^E <= a/b < 2^(E+1), for a, b > 0
RECURSIVE FloorLog2(_, _)
FloorLog2(a, b) ==
    IF a >= 2 * b THEN 1 + FloorLog2(a, 2 * b)
    ELSE IF a < b THEN FloorLog2(2 * a, b) - 1
    ELSE 0

\* (a * 2^k) mod m
RECURSIVE DoubledMod(_, _, _)
DoubledMod(a, k, m) == IF k = 0 THEN a % m ELSE (2 * DoubledMod(a, k - 1, m)) % m

\* sign of fl(fl(a/b) * 100) - 100*a/b for a, b > 0.
\* fl(a/b) = M * 2^-k with k = 52 - E and M the integer nearest a*2^k/b;
\* rho = M*b - a*2^k is its error.  100*M has 53 + s bits, s in {6, 7}; it
\* is rounded to a multiple of 2^s, which needs only 100*M mod 2^(s+1).
ProductMiss(a, b) ==
    LET E == FloorLog2(a, b)
        F == FloorLog2(100 * a, b)
        k == 52 - E
        R == DoubledMod(a, k, 256 * b)
        r == R % b
        up == IF 2 * r > b THEN 1 ELSE 0
        rho == IF up = 1 THEN b - r ELSE 0 - r
        M_low == (((R - r) \div b) + up) % 256
        exact_pow == IF F >= 0 THEN 100 * a = b * Pow2(F)
                     ELSE 100 * a * Pow2(0 - F) = b
        s == IF F = E + 7 /\ ~(exact_pow /\ rho < 0) THEN 7 ELSE 6
        P_low == (100 * M_low) % Pow2(s + 1)
        l == P_low % Pow2(s)
        odd == P_low \div Pow2(s)
        half == Pow2(s - 1)
        c == IF l > half \/ (l = half /\ odd = 1) THEN 1 ELSE 0
        D == (c * Pow2(s) - l) * b + 100 * rho
    IN  IF D > 0 THEN 1 ELSE IF D < 0 THEN -1 ELSE 0

ZeroDivisionError == "ZeroDivisionError"

\* partial / total raises ZeroDivisionError
DivisionRaises(partial, total) == total = 0

percentage_truncating(partial, total) ==
    IF DivisionRaises(partial, total) THEN ZeroDivisionError ELSE (10000 * partial) \div total

percentage_of_total_logs(partial, total) ==
    IF DivisionRaises(partial, total) THEN ZeroDivisionError
    ELSE LET n == 10000 * partial
             fl == n \div total
             r == n - fl * total
         IN  IF 2 * r < total THEN fl
             ELSE IF 2 * r > total THEN fl + 1
             ELSE LET miss == ProductMiss(partial, total)
                  IN  IF miss < 0 THEN fl
                      ELSE IF miss > 0 THEN fl + 1
                      ELSE IF fl % 2 = 0 THEN fl ELSE fl + 1

(***************************************************************************)
(* What the backend may answer                                             *)
(***************************************************************************)
TransportError == "TransportError"
IndexError == "IndexError"
UnboundLocalError == "UnboundLocalError"

\* res["aggregations"]["daily_logs"]["buckets"] of a whole request: no bucket,
\* or one bucket of one document on the first day of the range
BackendBuckets(date_range) ==
    {<<>>, <<[key_as_string |-> date_range[1], doc_count |-> 1]>>}

\* res["aggregations"]["aggregations"]["value"]
BackendCounts == 0..MaxCount

(***************************************************************************)
(* generate_content, one action per statement that talks to the backend    *)
(***************************************************************************)
Locals == <<dates, user_input, query_str, res, matching_call_logs, all_call_logs,
            res2, matching_email_logs, all_email_logs>>

Widgets == <<date_start, date_end, raw>>

Fn == <<fn_args, fn_ret>>

Init ==
    /\ pc = "input"
    /\ date_start \in Dates
    /\ date_end \in Dates
    /\ raw \in Strings(MaxLen)
    /\ dates = None
    /\ user_input = None
    /\ query_str = None
    /\ issued = <<>>
    /\ res = None
    /\ matching_call_logs = None
    /\ all_call_logs = None
    /\ res2 = None
    /\ matching_email_logs = None
    /\ all_email_logs = None
    /\ shown = <<>>
    /\ error = "none"
    /\ fn_args = None
    /\ fn_ret = None

\* the exception leaves generate_content and ends the script run
Raise(e) == error' = e /\ pc' = "crashed"

Issue(index_name, body) == issued' = Append(issued, SearchCall(index_name, body))

\* lines 252-257: read the widgets and build the query string
Compose ==
    /\ pc = "input"
    /\ dates' = pick_date_range(date_start, date_end)
    /\ user_input' = get_user_input(raw)
    /\ IF Len(user_input') = 0
       THEN /\ Raise(UnboundLocalError)     \* col2 reads locals never bound
            /\ query_str' = query_str
       ELSE IF Len(user_input') < 2
       THEN /\ Raise(IndexError)            \* user_input[1]
            /\ query_str' = query_str
       ELSE /\ query_str' = format_and(user_input'[1], user_input'[2])
            /\ pc' = "calls_histogram"
            /\ error' = error
    /\ UNCHANGED <<Widgets, issued, res, matching_call_logs, all_call_logs, res2,
                   matching_email_logs, all_email_logs, shown, Fn>>

\* lines 260-262
CallsHistogram ==
    /\ pc = "calls_histogram"
    /\ Issue("transcriptions_index",
             HistogramBody(query_str, dates, "called_at", "utterance"))
    /\ \/ /\ Raise(TransportError)
          /\ res' = res
       \/ /\ \E buckets \in BackendBuckets(dates) : res' = histogram_of(buckets)
          /\ pc' = "calls_matched"
          /\ error' = error
    /\ UNCHANGED <<Widgets, dates, user_input, query_str, matching_call_logs,
                   all_call_logs, res2, matching_email_logs, all_email_logs, shown, Fn>>

CallsMatchedRetried ==
    /\ pc = "calls_matched"
    /\ issued' = issued \o
          << SearchCall("transcriptions_index",
                        MatchedBody(query_str, dates, "called_at", "utterance")),
             SearchCall("transcriptions_index",
                        MatchedBody(query_str, dates, "called_at", "utterance")) >>
    /\ \/ /\ Raise(TransportError)
          /\ matching_call_logs' = matching_call_logs
       \/ /\ matching_call_logs' \in BackendCounts
          /\ pc' = "calls_total"
          /\ error' = error
    /\ UNCHANGED <<Widgets, dates, user_input, query_str, res, all_call_logs, res2,
                   matching_email_logs, all_email_logs, shown, Fn>>

\* lines 265-267
CallsMatched ==
    /\ pc = "calls_matched"
    /\ Issue("transcriptions_index",
             MatchedBody(query_str, dates, "called_at", "utterance"))
    /\ \/ /\ Raise(TransportError)
          /\ matching_call_logs' = matching_call_logs
       \/ /\ matching_call_logs' \in BackendCounts
          /\ pc' = "calls_total"
          /\ error' = error
    /\ UNCHANGED <<Widgets, dates, user_input, query_str, res, all_call_logs, res2,
                   matching_email_logs, all_email_logs, shown, Fn>>

\* lines 270-272
CallsTotal ==
    /\ pc = "calls_total"
    /\ Issue("transcriptions_index",
             AllBody(query_str, dates, "called_at", "utterance"))
    /\ \/ /\ Raise(TransportError)
          /\ all_call_logs' = all_call_logs
       \/ /\ all_call_logs' \in BackendCounts
          /\ pc' = "emails_histogram"
          /\ error' = error
    /\ UNCHANGED <<Widgets, dates, user_input, query_str, res, matching_call_logs,
                   res2, matching_email_logs, all_email_logs, shown, Fn>>

\* lines 275-277
EmailsHistogram ==
    /\ pc = "emails_histogram"
    /\ Issue("intercoms_index", HistogramBody(query_str, dates, "created_at", "body"))
    /\ \/ /\ Raise(TransportError)
          /\ res2' = res2
       \/ /\ \E buckets \in BackendBuckets(dates) : res2' = histogram_of(buckets)
          /\ pc' = "emails_matched"
          /\ error' = error
    /\ UNCHANGED <<Widgets, dates, user_input, query_str, res, matching_call_logs,
                   all_call_logs, matching_email_logs, all_email_logs, shown, Fn>>

\* lines 280-282
EmailsMatched ==
    /\ pc = "emails_matched"
    /\ Issue("intercoms_index", MatchedBody(query_str, dates, "created_at", "body"))
    /\ \/ /\ Raise(TransportError)
          /\ matching_email_logs' = matching_email_logs
       \/ /\ matching_email_logs' \in BackendCounts
          /\ pc' = "emails_total"
          /\ error' = error
    /\ UNCHANGED <<Widgets, dates, user_input, query_str, res, matching_call_logs,
                   all_call_logs, res2, all_email_logs, shown, Fn>>

\* lines 285-287
EmailsTotal ==
    /\ pc = "emails_total"
    /\ Issue("intercoms_index", AllBody(query_str, dates, "created_at", "body"))
    /\ \/ /\ Raise(TransportError)
          /\ all_email_logs' = all_email_logs
       \/ /\ all_email_logs' \in BackendCounts
          /\ pc' = "present"
          /\ error' = error
    /\ UNCHANGED <<Widgets, dates, user_input, query_str, res, matching_call_logs,
                   all_call_logs, res2, matching_email_logs, shown, Fn>>

\* generate_graphs: st.bar_chart of a one-column frame
Chart(histogram_data, log_type) ==
    [kind |-> "bar_chart", data |-> histogram_data, column |-> log_type]

\* st.write(count, label, "'<term 0>'", "and", "'<term 1>'")
WriteCount(count, label) ==
    [kind |-> "write",
     args |-> <<count, label, QuoteText \o user_input[1] \o QuoteText, "and",
                QuoteText \o user_input[2] \o QuoteText>>]

\* st.write(percentage, label)
WritePercent(percent, label) == [kind |-> "write", args |-> <<percent, label>>]

\* lines 289-322: the two charts, then the four lines of the second column;
\* a zero total raises out of percentage_of_total_logs and ends the run there
Present ==
    /\ pc = "present"
    /\ LET calls_pct == percentage_of_total_logs(matching_call_logs, all_call_logs)
           emails_pct == percentage_of_total_logs(matching_email_logs, all_email_logs)
           upto_calls == << Chart(res, "calls"), Chart(res2, "emails"),
                            WriteCount(matching_call_logs,
                                       "call logs containing keywords:") >>
           upto_emails == upto_calls \o
                          << WritePercent(calls_pct, "percent of all call logs"),
                             WriteCount(matching_email_logs,
                                        "email logs containing keywords:") >>
       IN  IF DivisionRaises(matching_call_logs, all_call_logs)
           THEN shown' = upto_calls /\ Raise(ZeroDivisionError)
           ELSE IF DivisionRaises(matching_email_logs, all_email_logs)
           THEN shown' = upto_emails /\ Raise(ZeroDivisionError)
           ELSE /\ shown' = Append(upto_emails,
                               WritePercent(emails_pct, "percent of all email logs"))
                /\ pc' = "done"
                /\ error' = error
    /\ UNCHANGED <<Widgets, Locals, issued, Fn>>

Next ==
    \/ Compose
    \/ CallsHistogram
    \/ CallsMatched
    \/ CallsTotal
    \/ EmailsHistogram
    \/ EmailsMatched
    \/ EmailsTotal
    \/ Present

Spec == Init /\ [][Next]_vars

(***************************************************************************)
(* The query string alone: the script up to its first search, on longer    *)
(* keyword texts                                                           *)
(***************************************************************************)
InitKw ==
    /\ pc = "input"
    /\ date_start \in Dates
    /\ date_end \in Dates
    /\ raw \in StringsOver(KwAlphabet, MaxKwLen)
    /\ dates = None
    /\ user_input = None
    /\ query_str = None
    /\ issued = <<>>
    /\ res = None
    /\ matching_call_logs = None
    /\ all_call_logs = None
    /\ res2 = None
    /\ matching_email_logs = None
    /\ all_email_logs = None
    /\ shown = <<>>
    /\ error = "none"
    /\ fn_args = None
    /\ fn_ret = None

NextKw ==
    \/ Compose
    \/ CallsHistogram

SpecKw == InitKw /\ [][NextKw]_vars

(***************************************************************************)
(* percentage_of_total_logs alone                                          *)
(***************************************************************************)
Idle ==
    /\ date_start = None
    /\ date_end = None
    /\ raw = None
    /\ dates = None
    /\ user_input = None
    /\ query_str = None
    /\ issued = <<>>
    /\ res = None
    /\ matching_call_logs = None
    /\ all_call_logs = None
    /\ res2 = None
    /\ matching_email_logs = None
    /\ all_email_logs = None
    /\ shown = <<>>
    /\ error = "none"

InitPct ==
    /\ pc = "percentage"
    /\ fn_args \in (0..MaxPct) \X (0..MaxPct)
    /\ fn_ret = None
    /\ Idle

ApplyPercentage ==
    /\ pc = "percentage"
    /\ fn_ret' = percentage_of_total_logs(fn_args[1], fn_args[2])
    /\ IF DivisionRaises(fn_args[1], fn_args[2])
       THEN Raise(ZeroDivisionError)
       ELSE pc' = "returned" /\ error' = error
    /\ UNCHANGED <<Widgets, Locals, issued, shown, fn_args>>

SpecPct == InitPct /\ [][ApplyPercentage]_vars

(***************************************************************************)
(* The histogram loop alone                                                *)
(***************************************************************************)
BucketKeys == {isoformat([year |-> 2024, month |-> 1, day |-> d]) : d \in 1..MaxKey}

Buckets == [key_as_string : BucketKeys, doc_count : 0..MaxCount]

RECURSIVE BucketLists(_)
BucketLists(n) ==
    IF n = 0 THEN {<<>>}
    ELSE LET shorter == BucketLists(n - 1)
         IN  shorter \cup
             {Append(l, b) : l \in {t \in shorter : Len(t) = n - 1}, b \in Buckets}

InitHist ==
    /\ pc = "histogram"
    /\ fn_args \in BucketLists(MaxBuckets)
    /\ fn_ret = None
    /\ Idle

ApplyHistogram ==
    /\ pc = "histogram"
    /\ fn_ret' = histogram_of(fn_args)
    /\ pc' = "returned"
    /\ UNCHANGED <<Widgets, Locals, issued, shown, error, fn_args>>

SpecHist == InitHist /\ [][ApplyHistogram]_vars

(***************************************************************************)
(* Vocabulary of the properties                                            *)
(***************************************************************************)
Char(s, i) == s[i]

CommaAt(s) == {i \in 1..Len(s) : Char(s, i) = 44}

NumPieces(s) == Cardinality(CommaAt(s)) + 1

\* position of the k-th comma of s; 0 for k = 0 and Len(s) + 1 past the last
Boundary(s, k) ==
    IF k = 0 THEN 0
    ELSE IF k > Cardinality(CommaAt(s)) THEN Len(s) + 1
    ELSE CHOOSE i \in CommaAt(s) : Cardinality({j \in CommaAt(s) : j < i}) = k - 1

\* the k-th comma-separated piece of s, untrimmed
Piece(s, k) == SubSeq(s, Boundary(s, k - 1) + 1, Boundary(s, k) - 1)

\* p from its first to its last character that is not whitespace
Trimmed(p) ==
    LET solid == {i \in 1..Len(p) : Char(p, i) \notin Whitespace}
    IN  IF solid = {} THEN <<>>
        ELSE SubSeq(p, CHOOSE i \in solid : \A j \in solid : i <= j,
                       CHOOSE i \in solid : \A j \in solid : i >= j)

\* the text clauses among the calls made so far
TextQueries ==
    {issued[i].body.query.bool.must[1].query_string.query :
        i \in {n \in 1..Len(issued) : Len(issued[n].body.query.bool.must) = 2}}

RECURSIVE JoinAnd(_)
JoinAnd(terms) ==
    IF Len(terms) = 1 THEN terms[1]
    ELSE terms[1] \o <<32, 97, 110, 100, 32>> \o JoinAnd(Tail(terms))

Ended == pc \in {"done", "crashed"}

\* the chart and count of the calls channel are on the page
CallsReported ==
    \E i \in 1..Len(shown) : shown[i] = Chart(res, "calls")

\* the percentages on the page
ShownPercents ==
    {shown[i].args[1] : i \in {n \in 1..Len(shown) :
                                  shown[n].kind = "write" /\ Len(shown[n].args) = 2}}

QueryKind(call) ==
    IF "daily_logs" \in DOMAIN call.body.aggs THEN "histogram"
    ELSE IF Len(call.body.query.bool.must) = 2 THEN "matched"
    ELSE "total"

ExpectedSequence ==
    << <<"transcriptions_index", "histogram">>,
       <<"transcriptions_index", "matched">>,
       <<"transcriptions_index", "total">>,
       <<"intercoms_index", "histogram">>,
       <<"intercoms_index", "matched">>,
       <<"intercoms_index", "total">> >>

\* number of searches behind the script at each position
SearchesBefore ==
    [p \in {"input", "calls_histogram", "calls_matched", "calls_total",
            "emails_histogram", "emails_matched", "emails_total", "present", "done"} |->
        CASE p \in {"input", "calls_histogram"} -> 0
          [] p = "calls_matched" -> 1
          [] p = "calls_total" -> 2
          [] p = "emails_histogram" -> 3
          [] p = "emails_matched" -> 4
          [] p = "emails_total" -> 5
          [] OTHER -> 6]

ChannelFields ==
    [transcriptions_index |-> [timestamp |-> "called_at", text |-> "utterance"],
     intercoms_index |-> [timestamp |-> "created_at", text |-> "body"]]

(***************************************************************************)
(* Properties                                                              *)
(***************************************************************************)

\* C1: when a search of the emails channel fails after the three searches of
\* the calls channel succeeded, the run still reports the calls channel.
C1_HealthyChannelReported ==
    (error = TransportError /\ Len(issued) >= 4) => CallsReported

\* C2: a total count of 0 never ends the run in an uncaught division error.
C2_ZeroTotalRecovered == error # ZeroDivisionError

\* C3: a range whose start is after its end sends no search and ends the run
\* with InvalidRangeError.
C3_InvalidRangeRejected ==
    (pc # "input" /\ DateAfter(date_start, date_end)) =>
        (issued = <<>> /\ error = "InvalidRangeError")

\* C4: a keyword text with no usable term sends no search and ends the run
\* with EmptyInputError.
C4_EmptyInputRejected ==
    (pc # "input" /\ \A i \in 1..Len(raw) : Char(raw, i) \in {44} \cup Whitespace) =>
        (issued = <<>> /\ error = "EmptyInputError")

\* C5 as stated: for n >= 1 terms the query string is all n trimmed terms, in
\* input order, joined by " and ".
C5_AllTermsJoined ==
    pc # "input" => (error # IndexError /\ query_str = JoinAnd(user_input))

\* C5 as amended: with two or more comma-separated pieces the query string,
\* and every text clause sent, is the first two trimmed pieces joined by
\* " and ", later pieces being left out; with a single piece the run ends with
\* IndexError and sends nothing.
C5_FirstTwoTermsJoined ==
    pc # "input" =>
        IF NumPieces(raw) >= 2
        THEN /\ error # IndexError
             /\ query_str = Trimmed(Piece(raw, 1)) \o <<32, 97, 110, 100, 32>>
                                \o Trimmed(Piece(raw, 2))
             /\ TextQueries \subseteq {query_str}
             \* "\tx,y " gives "x and y"
             /\ raw = <<9, 120, 44, 121, 32>> =>
                    query_str = <<120, 32, 97, 110, 100, 32, 121>>
             \* U+1680 "x" U+1680 "," U+1680 gives "x and "
             /\ raw = <<5760, 120, 5760, 44, 5760>> =>
                    query_str = <<120, 32, 97, 110, 100, 32>>
             \* "\t,\t" gives " and "
             /\ raw = <<9, 44, 9>> => query_str = <<32, 97, 110, 100, 32>>
        ELSE error = IndexError /\ issued = <<>>

C5_Witness ==
    /\ pc = "calls_matched"
    /\ raw = <<120, 44, 121, 44, 120>>                        \* "x,y,x"
    /\ query_str = <<120, 32, 97, 110, 100, 32, 121>>          \* "x and y"
    /\ TextQueries = {<<120, 32, 97, 110, 100, 32, 121>>}

\* C6: every percentage put on the page lies in [0, 100].
C6_PercentageInRange == \A v \in ShownPercents : 0 <= v /\ v <= 10000

\* C7: for matched >= 0 and total > 0 the percentage is a nearest two-decimal
\* value of matched/total*100; it is 0.0 for matched = 0, 100.0 for
\* matched = total, and 15.0 for 45 of 300.
C7_PercentageValues ==
    pc = "returned" =>
        LET matched == fn_args[1]
            total == fn_args[2]
            off == fn_ret * total - 10000 * matched
        IN  /\ total > 0
            /\ 2 * off <= total /\ 2 * off >= 0 - total
            /\ matched = 0 => fn_ret = 0
            /\ matched = total => fn_ret = 10000
            /\ (matched = 45 /\ total = 300) => fn_ret = 1500

C7_Witness == pc = "returned" /\ fn_args = <<45, 300>> /\ fn_ret = 1500

\* index of the first / last bucket of the list that carries key k
FirstBucket(buckets, k) ==
    CHOOSE n \in 1..Len(buckets) :
        /\ buckets[n].key_as_string = k
        /\ \A m \in 1..(n - 1) : buckets[m].key_as_string # k

LastBucket(buckets, k) ==
    CHOOSE n \in 1..Len(buckets) :
        /\ buckets[n].key_as_string = k
        /\ \A m \in (n + 1)..Len(buckets) : buckets[m].key_as_string # k

\* C8: the histogram has one entry per distinct bucket key, each key mapped to
\* the document count of its bucket (the last one, should the backend repeat a
\* key), in the backend's order of the keys; a bucket list without repeated
\* keys is returned entry for entry, and an empty list gives an empty mapping
\* and no error.
C8_HistogramShape ==
    pc = "returned" =>
        /\ error = "none"
        /\ \A i \in 1..Len(fn_ret) : \A j \in 1..Len(fn_ret) :
               i # j => fn_ret[i][1] # fn_ret[j][1]
        /\ {fn_ret[i][1] : i \in 1..Len(fn_ret)} =
               {fn_args[n].key_as_string : n \in 1..Len(fn_args)}
        /\ \A i \in 1..Len(fn_ret) :
               fn_ret[i][2] = fn_args[LastBucket(fn_args, fn_ret[i][1])].doc_count
        /\ \A i \in 1..Len(fn_ret) : \A j \in 1..Len(fn_ret) :
               i < j => FirstBucket(fn_args, fn_ret[i][1]) < FirstBucket(fn_args, fn_ret[j][1])
        /\ fn_args = <<>> => fn_ret = <<>>
        /\ Cardinality({fn_args[n].key_as_string : n \in 1..Len(fn_args)}) = Len(fn_args)
               => fn_ret = [n \in 1..Len(fn_args) |->
                               <<fn_args[n].key_as_string, fn_args[n].doc_count>>]

C8_Witness ==
    /\ pc = "returned"
    /\ fn_args = << [key_as_string |-> "2024-01-02", doc_count |-> 2],
                    [key_as_string |-> "2024-01-01", doc_count |-> 0],
                    [key_as_string |-> "2024-01-03", doc_count |-> 1] >>
    /\ fn_ret = << <<"2024-01-02", 2>>, <<"2024-01-01", 0>>, <<"2024-01-03", 1>> >>

\* C9: the searches made are always the first searches of the fixed sequence
\* calls histogram, calls matched, calls total, emails histogram, emails
\* matched, emails total, each made once; a run in which no search fails makes
\* all six, and nothing is put on the page before the sixth has returned.
C9_QuerySequence ==
    /\ Len(issued) <= 6
    /\ \A i \in 1..Len(issued) :
           <<issued[i].index, QueryKind(issued[i])>> = ExpectedSequence[i]
    /\ error = "none" => Len(issued) = SearchesBefore[pc]
    /\ (pc \in {"present", "done"} \/ error = ZeroDivisionError) => Len(issued) = 6
    /\ shown # <<>> => (Len(issued) = 6 /\ Ended)

C9_Witness == pc = "done" /\ Len(issued) = 6 /\ Len(shown) = 6

\* C10: each total-cardinality search is the matched-cardinality search made
\* just before it without the text clause: same index, same half-open range
\* filter (gte = start, lt = end) on the channel's timestamp field, same
\* distinct-value aggregation on the ".keyword" sub-field of the channel's
\* text field.
C10_TotalIsMatchedWithoutText ==
    \A i \in 1..Len(issued) :
        QueryKind(issued[i]) = "total" =>
            LET total == issued[i]
                matched == issued[i - 1]
                fields == ChannelFields[total.index]
            IN  /\ QueryKind(matched) = "matched"
                /\ total.index = matched.index
                /\ "query_string" \in DOMAIN matched.body.query.bool.must[1]
                /\ total.body = [matched.body EXCEPT !.query.bool.must = Tail(@)]
                /\ total.body.query.bool.must =
                       << [range |-> (fields.timestamp :>
                              [gte |-> isoformat(date_start), lt |-> isoformat(date_end)])] >>
                /\ total.body.aggs =
                       [aggregations |-> [cardinality |-> [field |-> fields.text \o ".keyword"]]]

C10_Witness ==
    /\ Len(issued) = 6
    /\ issued[5].body.query.bool.must =
           << [query_string |-> [query |-> <<120, 32, 97, 110, 100, 32, 121>>]],   \* "x and y"
              [range |-> [created_at |-> [gte |-> "2024-01-01", lt |-> "2024-02-01"]]] >>
    /\ issued[6].body.query.bool.must =
           << [range |-> [created_at |-> [gte |-> "2024-01-01", lt |-> "2024-02-01"]]] >>
    /\ issued[6].body.aggs = issued[5].body.aggs

====
